---- MODULE Spec2Model ----
(***************************************************************************)
(* A model of the command-line utilities of bio-misc-py:                   *)
(*   mergeduplicates.py, removesuperfluouscols.py and                      *)
(*   merge_seqmonk_deseq2_with_gprofiler.py.                               *)
(*                                                                         *)
(* Text is modelled as it is handled by the code.  A string is a sequence  *)
(* of one-character strings, so joining, number parsing and number         *)
(* formatting are computed character by character.  A line of a            *)
(* tab-delimited file is the sequence of its tab-separated fields (the     *)
(* line without its newline, split at every tab).                          *)
(***************************************************************************)
EXTENDS Integers, Sequences, FiniteSets, TLC

(***************************************************************************)
(* Bounds of the model.                                                    *)
(***************************************************************************)
MaxRows == 2        \* data lines read from a file by mergeduplicates.merge
MaxDataRows == 3    \* data lines read by removesuperfluouscols.remove
MaxTableRows == 2   \* rows of each file read by merge_seqmonk_deseq2_with_gprofiler
MaxArgs == 2        \* times an option of the mergeduplicates script is given
MaxPlateLines == 3  \* lines of a KASP file before, and after, the line "Content,"
FracDigits == 4     \* fractional digits kept when a float is written

(***************************************************************************)
(* Generic helpers.                                                        *)
(***************************************************************************)
Range(s) == {s[i] : i \in DOMAIN s}

RECURSIVE SelectNonEmpty(_)
SelectNonEmpty(s) ==
    IF s = <<>> THEN <<>>
    ELSE IF Head(s) = <<>> THEN SelectNonEmpty(Tail(s))
    ELSE <<Head(s)>> \o SelectNonEmpty(Tail(s))

RECURSIVE Gcd(_, _)
Gcd(a, b) == IF b = 0 THEN a ELSE Gcd(b, a % b)

RECURSIVE Pow10(_)
Pow10(k) == IF k = 0 THEN 1 ELSE 10 * Pow10(k - 1)

(***************************************************************************)
(* Strings of the input alphabet.                                          *)
(***************************************************************************)
Empty == <<>>
StrA == <<"a">>
Str1 == <<"1">>
StrHalf == <<"0", ".", "5">>
StrInf == <<"i", "n", "f">>
StrH == <<"h">>

\* The values a field of a table can hold: column 2 holds the values that
\* are merged (empty, a word, a whole number, a fraction, an infinity), the
\* other column holds a label or nothing.  Every line has two fields.
LabelVals == {Empty, StrA}
NumVals == {Empty, StrA, Str1, StrHalf, StrInf}
ColVals(c) == IF c = 2 THEN NumVals ELSE LabelVals
Fields == {1, 2}
RawLines == {line \in [Fields -> NumVals] : \A c \in Fields : line[c] \in ColVals(c)}
\* Header lines: a name for every column, or no name for the last column.
HeaderLines ==
    {[c \in Fields |-> StrH], [c \in Fields |-> IF c = 2 THEN Empty ELSE StrH]}

(***************************************************************************)
(* line.rstrip().split("\t"): rstrip removes the trailing whitespace of    *)
(* the line, tabs included, so trailing empty fields are lost; splitting   *)
(* the empty string still gives one (empty) field.                         *)
(***************************************************************************)
RECURSIVE rstrip_split(_)
rstrip_split(line) ==
    IF Len(line) > 1 /\ line[Len(line)] = Empty
    THEN rstrip_split(SubSeq(line, 1, Len(line) - 1))
    ELSE line

(***************************************************************************)
(* Python floats, as far as the input alphabet needs them: a finite float  *)
(* is an exact fraction n/d in lowest terms; Inf is float("inf").  The     *)
(* int 0 that sum() returns for an empty list is kept apart from the       *)
(* float 0.0.                                                              *)
(***************************************************************************)
Norm(n, d) == LET g == Gcd(n, d) IN [t |-> "float", n |-> n \div g, d |-> d \div g]
Inf == [t |-> "inf", n |-> 0, d |-> 1]
IntZero == [t |-> "int", n |-> 0, d |-> 1]

DigitChars == <<"0", "1", "2", "3", "4", "5", "6", "7", "8", "9">>
IsDigit(c) == c \in Range(DigitChars)
DigitVal(c) == (CHOOSE k \in 1..10 : DigitChars[k] = c) - 1

RECURSIVE DigitsVal(_)
DigitsVal(s) ==
    IF s = <<>> THEN 0
    ELSE 10 * DigitsVal(SubSeq(s, 1, Len(s) - 1)) + DigitVal(s[Len(s)])

AllDigits(s) == s /= <<>> /\ \A k \in DOMAIN s : IsDigit(s[k])

\* float(s) for s of the form digits, digits.digits or inf; ok is FALSE when
\* float raises ValueError.
float(s) ==
    IF s = StrInf THEN [ok |-> TRUE, val |-> Inf]
    ELSE IF AllDigits(s) THEN [ok |-> TRUE, val |-> Norm(DigitsVal(s), 1)]
    ELSE IF \E p \in DOMAIN s :
                /\ s[p] = "."
                /\ AllDigits(SubSeq(s, 1, p - 1))
                /\ AllDigits(SubSeq(s, p + 1, Len(s)))
    THEN LET p == CHOOSE q \in DOMAIN s : s[q] = "."
             ip == SubSeq(s, 1, p - 1)
             fp == SubSeq(s, p + 1, Len(s))
         IN [ok |-> TRUE,
             val |-> Norm(DigitsVal(ip) * Pow10(Len(fp)) + DigitsVal(fp), Pow10(Len(fp)))]
    ELSE [ok |-> FALSE, val |-> IntZero]

\* x + y of Python numbers; int 0 + float is a float.
Add(x, y) ==
    IF x.t = "inf" \/ y.t = "inf" THEN Inf
    ELSE IF x.t = "int" /\ y.t = "int" THEN [t |-> "int", n |-> x.n + y.n, d |-> 1]
    ELSE Norm(x.n * y.d + y.n * x.d, x.d * y.d)

\* x / k for k > 0
Div(x, k) == IF x.t = "inf" THEN Inf ELSE Norm(x.n, x.d * k)

Less(x, y) ==
    IF x.t = "inf" THEN FALSE
    ELSE IF y.t = "inf" THEN TRUE
    ELSE x.n * y.d < y.n * x.d

\* sum(values): starts from the int 0
RECURSIVE sum(_)
sum(values) ==
    IF values = <<>> THEN IntZero
    ELSE Add(sum(SubSeq(values, 1, Len(values) - 1)), values[Len(values)])

\* min(values), max(values) of a non-empty list: the first smallest / largest
RECURSIVE min(_)
min(values) ==
    IF Len(values) = 1 THEN values[1]
    ELSE LET m == min(SubSeq(values, 1, Len(values) - 1))
         IN IF Less(values[Len(values)], m) THEN values[Len(values)] ELSE m

RECURSIVE max(_)
max(values) ==
    IF Len(values) = 1 THEN values[1]
    ELSE LET m == max(SubSeq(values, 1, Len(values) - 1))
         IN IF Less(m, values[Len(values)]) THEN values[Len(values)] ELSE m

is_integer(x) == x.t /= "inf" /\ x.d = 1

\* str(n) of a natural number
RECURSIVE NatStr(_)
NatStr(n) ==
    IF n < 10 THEN <<DigitChars[n + 1]>>
    ELSE NatStr(n \div 10) \o <<DigitChars[(n % 10) + 1]>>

RECURSIVE StripZeros(_)
StripZeros(s) ==
    IF Len(s) > 1 /\ s[Len(s)] = "0" THEN StripZeros(SubSeq(s, 1, Len(s) - 1)) ELSE s

RECURSIVE PadLeft(_, _)
PadLeft(s, k) == IF Len(s) >= k THEN s ELSE PadLeft(<<"0">> \o s, k)

\* str(x) of a float: the decimal expansion, rounded to FracDigits
\* fractional digits, with at least one fractional digit.
FloatStr(x) ==
    IF x.t = "inf" THEN StrInf
    ELSE LET scaled == (x.n * Pow10(FracDigits) + (x.d \div 2)) \div x.d
             ip == scaled \div Pow10(FracDigits)
             fp == scaled % Pow10(FracDigits)
         IN NatStr(ip) \o <<".">> \o StripZeros(PadLeft(NatStr(fp), FracDigits))

\* A formatting that writes every result as a float
format_float_as_float(x) == FloatStr(x)

\* str(int(flt_val)) if flt_val.is_integer() else str(flt_val)
format_float(x) == IF is_integer(x) THEN NatStr(x.n) ELSE FloatStr(x)

(***************************************************************************)
(* mergeduplicates.py                                                      *)
(***************************************************************************)
VALID_ACTIONS == {"sums", "means", "mins", "maxs"}   \* VALID_ACTIONS with the "s" added
ActionNames == VALID_ACTIONS \cup {"unknown"}

\* Exceptions that end a call of merge.
NoExc == [type |-> "none", field |-> 0, value |-> Empty, names |-> {}]
IndexError == [type |-> "IndexError", field |-> 0, value |-> Empty, names |-> {}]
AssertionError == [type |-> "AssertionError", field |-> 0, value |-> Empty, names |-> {}]
ZeroDivisionError == [type |-> "ZeroDivisionError", field |-> 0, value |-> Empty, names |-> {}]
ValueError == [type |-> "ValueError", field |-> 0, value |-> Empty, names |-> {}]
\* SystemExit("error: field {field} is not numeric ({string})")
SystemExit(field, string) ==
    [type |-> "SystemExit", field |-> field, value |-> string, names |-> {}]
\* KeyError("error: unknown action specified: {list(actions.keys())}")
KeyError(names) == [type |-> "KeyError", field |-> 0, value |-> Empty, names |-> names]

RECURSIVE SortedSeq(_)
SortedSeq(S) ==
    IF S = {} THEN <<>>
    ELSE LET m == CHOOSE x \in S : \A y \in S : x <= y
         IN <<m>> \o SortedSeq(S \ {m})

\* The arguments of merge: keys is a list of field numbers, actions the
\* keyword arguments (name -> field numbers).
KeyLists == {SortedSeq(S) : S \in SUBSET Fields}
\* No keyword argument, one that names one field, or the keyword "unknown"
\* for field 2 with a second keyword, valid or not, that names one field.
ActionArgs ==
    {<<>>} \cup {[name \in {a} |-> {f}] : a \in ActionNames, f \in Fields}
           \cup {[name \in {"unknown", b} |-> IF name = "unknown" THEN {2} ELSE {f}] :
                    b \in {"other", "sums"}, f \in Fields}

\* actions.get(name, [])
Get(actions, name) == IF name \in DOMAIN actions THEN actions[name] ELSE {}
\* list(itertools.chain(*actions.values()))
ChainValues(actions) == UNION {actions[name] : name \in DOMAIN actions}

\* "\t".join([fields[k - 1] for k in keys]); fields hold no tab, so the
\* joined string is determined by, and determines, the list of values.
KeyOf(fields, keys) == [j \in 1..Len(keys) |-> fields[keys[j]]]
KeyIndexError(fields, keys) == \E j \in 1..Len(keys) : keys[j] > Len(fields)

\* A grouping that puts a key it has not seen before in front of the others
group_by_key_add_front(data, key, fields) ==
    IF \E p \in DOMAIN data : data[p].key = key
    THEN [p \in DOMAIN data |->
            IF data[p].key = key
            THEN [key |-> key, rows |-> Append(data[p].rows, fields)]
            ELSE data[p]]
    ELSE <<[key |-> key, rows |-> <<fields>>]>> \o data

\* data[key] = [fields] / data[key].append(fields) on an OrderedDict,
\* kept as the list of its (key, rows) items in insertion order.
group_by_key_add(data, key, fields) ==
    IF \E p \in DOMAIN data : data[p].key = key
    THEN [p \in DOMAIN data |->
            IF data[p].key = key
            THEN [key |-> key, rows |-> Append(data[p].rows, fields)]
            ELSE data[p]]
    ELSE Append(data, [key |-> key, rows |-> <<fields>>])

\* ",".join(str_values)
RECURSIVE join_comma(_)
join_comma(strs) ==
    IF strs = <<>> THEN Empty
    ELSE IF Len(strs) = 1 THEN strs[1]
    ELSE strs[1] \o <<",">> \o join_comma(Tail(strs))

\* _conv_to_float(data, i) with f = i + 1, from row r on: the rows are
\* visited in order, and the first row that lacks the field (IndexError)
\* or holds a non-empty value that float() rejects (SystemExit) ends it.
RECURSIVE conv_to_float_from(_, _, _)
conv_to_float_from(rows, f, r) ==
    IF r > Len(rows) THEN [exc |-> NoExc, values |-> <<>>]
    ELSE IF f > Len(rows[r]) THEN [exc |-> IndexError, values |-> <<>>]
    ELSE IF Len(rows[r][f]) = 0 THEN conv_to_float_from(rows, f, r + 1)
    ELSE LET p == float(rows[r][f])
         IN IF ~p.ok THEN [exc |-> SystemExit(f, rows[r][f]), values |-> <<>>]
            ELSE LET rest == conv_to_float_from(rows, f, r + 1)
                 IN [exc |-> rest.exc, values |-> <<p.val>> \o rest.values]

conv_to_float(rows, f) == conv_to_float_from(rows, f, 1)

\* _apply_action(data, i, actions) with f = i + 1
apply_action(rows, f, actions) ==
    LET sums == Get(actions, "sums")
        means == Get(actions, "means")
        mins == Get(actions, "mins")
        maxs == Get(actions, "maxs")
        conv == conv_to_float(rows, f)
        flt_values == conv.values
        Checked(flt_val) ==
            IF flt_val.t = "int" THEN [exc |-> AssertionError, str |-> Empty]
            ELSE [exc |-> NoExc, str |-> format_float(flt_val)]
    IN IF conv.exc /= NoExc THEN [exc |-> conv.exc, str |-> Empty]
       ELSE IF f \in sums \cup means
       THEN IF f \in means
            THEN IF Len(flt_values) = 0
                 THEN [exc |-> ZeroDivisionError, str |-> Empty]
                 ELSE Checked(Div(sum(flt_values), Len(flt_values)))
            ELSE Checked(sum(flt_values))
       ELSE IF f \in mins
       THEN IF Len(flt_values) = 0
            THEN [exc |-> ValueError, str |-> Empty]
            ELSE Checked(min(flt_values))
       ELSE IF f \in maxs
       THEN IF Len(flt_values) = 0
            THEN [exc |-> ValueError, str |-> Empty]
            ELSE Checked(max(flt_values))
       ELSE [exc |-> KeyError(DOMAIN actions \ VALID_ACTIONS), str |-> Empty]

\* The comma-separated or collapsed merge of field f (merge, lines 75-79)
merge_plain(rows, f) ==
    IF \E r \in DOMAIN rows : f > Len(rows[r])
    THEN [exc |-> IndexError, str |-> Empty]
    ELSE LET str_values == SelectNonEmpty([r \in DOMAIN rows |-> rows[r][f]])
         IN IF Cardinality(Range(str_values)) = 1
            THEN [exc |-> NoExc, str |-> str_values[1]]
            ELSE [exc |-> NoExc, str |-> join_comma(str_values)]

\* One pass of the loop over the fields of the first row (merge, lines 65-80)
merge_field(rows, f, keys, actions) ==
    IF f \in keys THEN [exc |-> NoExc, str |-> rows[1][f]]
    ELSE IF f \in ChainValues(actions) THEN apply_action(rows, f, actions)
    ELSE merge_plain(rows, f)

\* The output list built for a group of two or more rows, from field f on;
\* the first exception ends the call before anything of the line is printed.
RECURSIVE merge_fields_from(_, _, _, _)
merge_fields_from(rows, f, keys, actions) ==
    IF f > Len(rows[1]) THEN [exc |-> NoExc, output |-> <<>>]
    ELSE LET one == merge_field(rows, f, keys, actions)
         IN IF one.exc /= NoExc THEN [exc |-> one.exc, output |-> <<>>]
            ELSE LET rest == merge_fields_from(rows, f + 1, keys, actions)
                 IN [exc |-> rest.exc, output |-> <<one.str>> \o rest.output]

merge_group(rows, keys, actions) ==
    IF Len(rows) = 1 THEN [exc |-> NoExc, output |-> rows[1]]
    ELSE merge_fields_from(rows, 1, keys, actions)

VARIABLES
    \* mergeduplicates.merge
    mpc,        \* where the call of merge stands: start, read, emit, done, error
    header,     \* argument header
    keys,       \* argument keys
    actions,    \* keyword arguments **actions
    hdr,        \* the header line taken from the file (a list of at most one raw line)
    lines,      \* the data lines read from the file so far, as they are in the file
    data,       \* the OrderedDict of _group_by_key
    pos,        \* number of keys of data already handled by the loop of merge
    out,        \* the lines printed so far
    exc,        \* the exception that ended the call
    \* removesuperfluouscols.remove
    rpc,        \* where the call of remove stands
    noheader,   \* argument noheader
    rfile,      \* the lines read from the file so far, as they are in the file
    rheader,    \* the list header
    rdata,      \* the list of columns data
    rmsgs,      \* the numbers of the removed columns, in the order they are logged
    rout,       \* the lines printed so far
    rexc,       \* the exception that ended the call
    \* merge_seqmonk_deseq2_with_gprofiler.merge
    gpc,        \* where the call of merge stands
    gargs,      \* the arguments deseq2_key and gprofiler_key
    dfile,      \* the rows read from the DESeq2 file so far
    gfile,      \* the rows read from the g:Profiler file so far
    deseq2_data,    \* the dict deseq2_data
    merged_data,    \* the list merged_data
    gout,       \* the lines written to standard output so far
    gexc,       \* the message of sys.exit, or the exception, that ended the call
    \* the mergeduplicates script
    spc,        \* where the script stands: args, error, main
    sargs,      \* the parsed arguments
    serr,       \* the message of parser.error
    \* plotkaspcsv.make_plate_from_file
    ppc,        \* where the call stands: header, wells, return, done, error
    pfile,      \* the lines read from the file so far
    pname,      \* the local variable name
    pwells,     \* the list wells
    plate,      \* the Plate returned, as a list of at most one plate
    pexc        \* the exception that ended the call

mvars == <<mpc, header, keys, actions, hdr, lines, data, pos, out, exc>>
rvars == <<rpc, noheader, rfile, rheader, rdata, rmsgs, rout, rexc>>
gvars == <<gpc, gargs, dfile, gfile, deseq2_data, merged_data, gout, gexc>>
svars == <<spc, sargs, serr>>
pvars == <<ppc, pfile, pname, pwells, plate, pexc>>
vars == <<mvars, rvars, gvars, svars, pvars>>

\* The tools share no state: while one runs, the state of the others stays
\* as it is before they are started.
MergeIdle ==
    /\ mpc = "start" /\ header = FALSE /\ keys = <<>> /\ actions = <<>>
    /\ hdr = <<>> /\ lines = <<>> /\ data = <<>> /\ pos = 0 /\ out = <<>>
    /\ exc = NoExc
RemoveIdle ==
    /\ rpc = "start" /\ noheader = FALSE /\ rfile = <<>> /\ rheader = <<>>
    /\ rdata = <<>> /\ rmsgs = <<>> /\ rout = <<>> /\ rexc = NoExc
GprofilerIdle ==
    /\ gpc = "start" /\ gargs = <<>> /\ dfile = <<>> /\ gfile = <<>>
    /\ deseq2_data = <<>> /\ merged_data = <<>> /\ gout = <<>> /\ gexc = NoExc
ScriptIdle ==
    /\ spc = "args" /\ sargs = <<>> /\ serr = Empty
PlateIdle ==
    /\ ppc = "header" /\ pfile = <<>> /\ pname = Empty /\ pwells = <<>>
    /\ plate = <<>> /\ pexc = NoExc

Init ==
    /\ mpc = "start"
    /\ header \in BOOLEAN
    /\ keys \in KeyLists
    /\ actions \in ActionArgs
    /\ hdr = <<>>
    /\ lines = <<>>
    /\ data = <<>>
    /\ pos = 0
    /\ out = <<>>
    /\ exc = NoExc
    /\ RemoveIdle
    /\ GprofilerIdle
    /\ ScriptIdle
    /\ PlateIdle

\* A header handling that takes the header line from the file without printing it
merge_header_unprinted ==
    /\ mpc = "start"
    /\ \/ /\ ~header
          /\ UNCHANGED hdr
       \/ /\ header
          /\ \E line \in HeaderLines : hdr' = <<line>>
    /\ mpc' = "read"
    /\ UNCHANGED <<header, keys, actions, lines, data, pos, out, exc>>
    /\ UNCHANGED <<rvars, gvars, svars, pvars>>

\* if header: print(file.readline().rstrip())
\* readline gives the empty string at the end of the file.
merge_header ==
    /\ mpc = "start"
    /\ \/ /\ ~header
          /\ mpc' = "read"
          /\ UNCHANGED <<hdr, out>>
       \/ /\ header
          /\ \E line \in HeaderLines :
                /\ hdr' = <<line>>
                /\ out' = <<rstrip_split(line)>>
          /\ mpc' = "read"
       \/ /\ header
          /\ out' = <<<<Empty>>>>
          /\ mpc' = "emit"
          /\ UNCHANGED hdr
    /\ UNCHANGED <<header, keys, actions, lines, data, pos, exc>>
    /\ UNCHANGED <<rvars, gvars, svars, pvars>>

\* One pass of the loop of _group_by_key
group_by_key_line ==
    /\ mpc = "read"
    /\ Len(lines) < MaxRows
    /\ \E line \in RawLines :
        LET fields == rstrip_split(line)
        IN /\ lines' = Append(lines, line)
           /\ IF KeyIndexError(fields, keys)
              THEN /\ mpc' = "error"
                   /\ exc' = IndexError
                   /\ UNCHANGED data
              ELSE /\ data' = group_by_key_add(data, KeyOf(fields, keys), fields)
                   /\ UNCHANGED <<mpc, exc>>
    /\ UNCHANGED <<header, keys, actions, hdr, pos, out>>
    /\ UNCHANGED <<rvars, gvars, svars, pvars>>

\* The file is exhausted: _group_by_key returns
group_by_key_return ==
    /\ mpc = "read"
    /\ mpc' = "emit"
    /\ UNCHANGED <<header, keys, actions, hdr, lines, data, pos, out, exc>>
    /\ UNCHANGED <<rvars, gvars, svars, pvars>>

\* One pass of the loop "for key in data" of merge
merge_key ==
    /\ mpc = "emit"
    /\ pos < Len(data)
    /\ LET res == merge_group(data[pos + 1].rows, Range(keys), actions)
       IN IF res.exc /= NoExc
          THEN /\ mpc' = "error"
               /\ exc' = res.exc
               /\ UNCHANGED <<pos, out>>
          ELSE /\ out' = Append(out, res.output)
               /\ pos' = pos + 1
               /\ UNCHANGED <<mpc, exc>>
    /\ UNCHANGED <<header, keys, actions, hdr, lines, data>>
    /\ UNCHANGED <<rvars, gvars, svars, pvars>>

\* merge returns
merge_return ==
    /\ mpc = "emit"
    /\ pos = Len(data)
    /\ mpc' = "done"
    /\ UNCHANGED <<header, keys, actions, hdr, lines, data, pos, out, exc>>
    /\ UNCHANGED <<rvars, gvars, svars, pvars>>

Next ==
    \/ merge_header
    \/ group_by_key_line
    \/ group_by_key_return
    \/ merge_key
    \/ merge_return

Spec == Init /\ [][Next]_vars

(***************************************************************************)
(* Properties of mergeduplicates.merge.  They are stated over the file as  *)
(* it was read (hdr, lines) and the printed lines (out); a field past the  *)
(* end of a printed line reads as the empty string.                        *)
(***************************************************************************)
FieldOf(line, f) == IF f <= Len(line) THEN line[f] ELSE Empty
Pad(line) == [c \in Fields |-> FieldOf(line, c)]

\* The key of data line r and the lines that first show their key
RowKey(r) == [j \in 1..Len(keys) |-> lines[r][keys[j]]]
FirstRows == {r \in 1..Len(lines) : \A q \in 1..(r - 1) : RowKey(q) /= RowKey(r)}
GroupOf(r) == {q \in 1..Len(lines) : RowKey(q) = RowKey(r)}
NthFirst(k) == CHOOSE r \in FirstRows : Cardinality({q \in FirstRows : q < r}) = k - 1

\* Lines printed for the header, and the line printed for the k-th key
HdrLines == IF header /\ mpc /= "start" THEN 1 ELSE 0
OutLine(k) == out[HdrLines + k]
Printed(k) == k \in 1..pos /\ HdrLines + k <= Len(out)
Merged(k) == Printed(k) /\ Cardinality(GroupOf(NthFirst(k))) >= 2

\* The non-empty values of field f in the lines of S, in file order
RECURSIVE ValuesIn(_, _)
ValuesIn(S, f) ==
    IF S = {} THEN <<>>
    ELSE LET r == CHOOSE x \in S : \A y \in S : x <= y
         IN (IF lines[r][f] = Empty THEN <<>> ELSE <<lines[r][f]>>) \o ValuesIn(S \ {r}, f)

RECURSIVE JoinWithCommas(_)
JoinWithCommas(vs) ==
    IF Len(vs) = 1 THEN vs[1]
    ELSE JoinWithCommas(SubSeq(vs, 1, Len(vs) - 1)) \o <<",">> \o vs[Len(vs)]

Collapsed(vs) ==
    IF vs = <<>> THEN Empty
    ELSE IF \A i \in DOMAIN vs : vs[i] = vs[1] THEN vs[1]
    ELSE JoinWithCommas(vs)

\* C2: in the line printed for a group of two or more rows, a field that is
\* neither a key nor listed for an action holds the single value when all
\* its non-empty values in the group are equal, otherwise these values
\* joined by commas in input order, and the empty string when all are empty.
C2_PlainFieldMerged ==
    \A k \in 1..pos : Merged(k) =>
        \A f \in Fields \ (Range(keys) \cup ChainValues(actions)) :
            FieldOf(OutLine(k), f) = Collapsed(ValuesIn(GroupOf(NthFirst(k)), f))

\* Numbers of the input alphabet, counted in halves
IsNumeric(s) == s \in {Str1, StrHalf, StrInf}
HalvesOf(s) == IF s = Str1 THEN 2 ELSE IF s = StrHalf THEN 1 ELSE 0
HasInf(vs) == \E i \in DOMAIN vs : vs[i] = StrInf
AllInf(vs) == \A i \in DOMAIN vs : vs[i] = StrInf
RECURSIVE TotalHalves(_)
TotalHalves(vs) == IF vs = <<>> THEN 0 ELSE HalvesOf(Head(vs)) + TotalHalves(Tail(vs))
MinHalves(vs) ==
    CHOOSE h \in {HalvesOf(vs[i]) : i \in {j \in DOMAIN vs : vs[j] /= StrInf}} :
        \A i \in DOMAIN vs : vs[i] /= StrInf => h <= HalvesOf(vs[i])
MaxHalves(vs) ==
    CHOOSE h \in {HalvesOf(vs[i]) : i \in DOMAIN vs} :
        \A i \in DOMAIN vs : HalvesOf(vs[i]) <= h

\* The action applied to a field listed in the valid keyword arguments
IsActionField(f) ==
    f \in Get(actions, "sums") \cup Get(actions, "means")
            \cup Get(actions, "mins") \cup Get(actions, "maxs")
OpOf(f) ==
    IF f \in Get(actions, "means") THEN "mean"
    ELSE IF f \in Get(actions, "sums") THEN "sum"
    ELSE IF f \in Get(actions, "mins") THEN "min"
    ELSE "max"

\* The value the action op has on the non-empty numeric values vs
Expected(op, vs) ==
    IF op = "sum" THEN (IF HasInf(vs) THEN Inf ELSE Norm(TotalHalves(vs), 2))
    ELSE IF op = "mean"
    THEN (IF HasInf(vs) THEN Inf ELSE Norm(TotalHalves(vs), 2 * Len(vs)))
    ELSE IF op = "min" THEN (IF AllInf(vs) THEN Inf ELSE Norm(MinHalves(vs), 2))
    ELSE (IF HasInf(vs) THEN Inf ELSE Norm(MaxHalves(vs), 2))

\* C3: in the line printed for a group of two or more rows, a field listed in
\* sums, means, mins or maxs holds the sum, the mean, the minimum or the
\* maximum of its non-empty values in the group.
C3_ActionFieldValue ==
    \A k \in 1..pos : Merged(k) =>
        \A f \in Fields \ Range(keys) :
            LET vs == ValuesIn(GroupOf(NthFirst(k)), f)
                text == FieldOf(OutLine(k), f)
            IN (IsActionField(f) /\ vs /= <<>> /\ \A i \in DOMAIN vs : IsNumeric(vs[i]))
                => /\ float(text).ok
                   /\ float(text).val = Expected(OpOf(f), vs)

\* C7: merge ends with SystemExit "field N is not numeric (value)" exactly
\* when a field listed for an action holds, in some row of a group of two or
\* more rows, a non-empty value that is not a number.
NotNumericAt(r, f) == lines[r][f] /= Empty /\ ~IsNumeric(lines[r][f])
C7_SystemExitIffNotNumeric ==
    mpc \in {"done", "error"} =>
        /\ exc.type = "SystemExit" <=>
                \E r \in 1..Len(lines) : \E f \in ChainValues(actions) \ Range(keys) :
                    /\ f \in Fields
                    /\ Cardinality(GroupOf(r)) >= 2
                    /\ NotNumericAt(r, f)
        /\ exc.type = "SystemExit" =>
                \E r \in 1..Len(lines) :
                    /\ exc.field \in Fields
                    /\ Cardinality(GroupOf(r)) >= 2
                    /\ NotNumericAt(r, exc.field)
                    /\ exc.value = lines[r][exc.field]

\* C9: with header=True the first line of the file is printed first and is
\* no row of any group, and no other printed line holds anything of it; with
\* header=False nothing is set aside and the first line is the first row of
\* the first group.
CharsOf(line) == UNION {Range(line[c]) : c \in DOMAIN line}
AllRows == UNION {Range(data[p].rows) : p \in DOMAIN data}
C9_HeaderFirst ==
    /\ (header /\ mpc /= "start") => Len(out) >= 1
    /\ (header /\ hdr /= <<>>) =>
            /\ Pad(out[1]) = hdr[1]
            /\ \A row \in AllRows : Pad(row) /= hdr[1]
            /\ \A k \in 2..Len(out) : "h" \notin CharsOf(out[k])
    /\ (mpc \in {"read", "emit", "done"}) =>
            /\ \A r \in 1..Len(lines) : \E row \in AllRows : Pad(row) = lines[r]
            /\ \A row \in AllRows : \E r \in 1..Len(lines) : Pad(row) = lines[r]
    /\ ~header =>
            /\ hdr = <<>>
            /\ Len(out) = pos
            /\ (mpc \in {"read", "emit", "done"} /\ lines /= <<>>) =>
                    Pad(data[1].rows[1]) = lines[1]

\* C9 witness: a header line was printed first and a merged line after it.
C9_Witness ==
    /\ mpc = "done"
    /\ header
    /\ hdr /= <<>>
    /\ Len(lines) = 2
    /\ Len(out) = 2
    /\ Pad(out[1]) = hdr[1]

\* C10: a result whose value is a whole number is written with digits only;
\* a result that is not whole is written as a decimal number.
IsDecimalText(t) ==
    \E p \in DOMAIN t :
        /\ t[p] = "."
        /\ AllDigits(SubSeq(t, 1, p - 1))
        /\ AllDigits(SubSeq(t, p + 1, Len(t)))
IsWhole(v) == v.t = "float" /\ v.d = 1
C10_WholeOrDecimal ==
    \A k \in 1..pos : Merged(k) =>
        \A f \in 1..Len(OutLine(k)) :
            (IsActionField(f) /\ f \notin Range(keys)) =>
                LET v == Expected(OpOf(f), ValuesIn(GroupOf(NthFirst(k)), f))
                    text == OutLine(k)[f]
                IN /\ IsWhole(v) => AllDigits(text)
                   /\ ~IsWhole(v) => IsDecimalText(text)

\* C10 as amended: a whole result is written with digits only, a finite
\* result that is not whole as a decimal number, an infinite result as inf.
C10_WholeDecimalOrInf ==
    \A k \in 1..pos : Merged(k) =>
        \A f \in 1..Len(OutLine(k)) :
            (IsActionField(f) /\ f \notin Range(keys)) =>
                LET v == Expected(OpOf(f), ValuesIn(GroupOf(NthFirst(k)), f))
                    text == OutLine(k)[f]
                IN /\ IsWhole(v) => AllDigits(text)
                   /\ (v.t = "float" /\ ~IsWhole(v)) => IsDecimalText(text)
                   /\ v.t = "inf" => text = StrInf

\* C10 witness: the mean of 1 and 0.5 has been written as a decimal number,
\* or the sum of 0.5 and 0.5 as a whole number.
C10_Witness ==
    /\ mpc = "done"
    /\ \E k \in 1..pos : Merged(k) /\
          \E f \in 1..Len(OutLine(k)) :
              LET vs == ValuesIn(GroupOf(NthFirst(k)), f)
              IN /\ f \notin Range(keys)
                 /\ \/ /\ f \in Get(actions, "means")
                       /\ vs = <<Str1, StrHalf>>
                       /\ OutLine(k)[f] = <<"0", ".", "7", "5">>
                    \/ /\ f \in Get(actions, "sums")
                       /\ vs = <<StrHalf, StrHalf>>
                       /\ OutLine(k)[f] = <<"1">>

\* A field listed only under keywords that are none of the four valid ones
UnknownOnly(f) ==
    /\ f \in ChainValues(actions)
    /\ ~IsActionField(f)
    /\ f \notin Range(keys)
\* The loop over the fields of a group of two or more rows gets to field f:
\* the first row of the group has the field and the fields before it were
\* merged without an exception.
ReachedIn(rows, f) ==
    /\ Len(rows) >= 2
    /\ f <= Len(rows[1])
    /\ \A g \in 1..(f - 1) : merge_field(rows, g, Range(keys), actions).exc = NoExc

\* C11: when the loop of merge gets, in a group of two or more rows, to a
\* field listed only under a keyword other than sums, means, mins, maxs,
\* the call ends there with KeyError, and the message lists every keyword
\* passed that is not one of the four valid ones and none of these.
C11_UnknownActionKeyError ==
    (mpc \in {"done", "error"} /\ \A r \in DOMAIN lines : ~KeyIndexError(rstrip_split(lines[r]), keys))
    => \A k \in 1..Len(data) : \A f \in Fields :
            (k <= pos + 1 /\ UnknownOnly(f) /\ ReachedIn(data[k].rows, f))
            => /\ k = pos + 1
               /\ mpc = "error"
               /\ exc = KeyError(DOMAIN actions \ {"sums", "means", "mins", "maxs"})

\* C14: every call of _apply_action, made for a group of two or more rows
\* and a field listed in sums, means, mins or maxs that every row has with a
\* numeric or an empty value, returns a string and raises nothing, also when
\* all the values are empty.
C14_ApplyActionReturns ==
    (mpc \in {"done", "error"} /\ \A r \in DOMAIN lines : ~KeyIndexError(rstrip_split(lines[r]), keys))
    => \A k \in 1..Len(data) : \A f \in Fields :
            (/\ k <= pos + 1
             /\ IsActionField(f)
             /\ f \notin Range(keys)
             /\ ReachedIn(data[k].rows, f)
             /\ \A r \in DOMAIN data[k].rows :
                    /\ f <= Len(data[k].rows[r])
                    /\ data[k].rows[r][f] = Empty \/ IsNumeric(data[k].rows[r][f]))
            => /\ apply_action(data[k].rows, f, actions).exc = NoExc
               /\ apply_action(data[k].rows, f, actions).str /= Empty
               /\ k <= pos

(***************************************************************************)
(* removesuperfluouscols.py                                                *)
(***************************************************************************)
\* Tables of three columns: a word or a number, then fields that may be empty
RFields == {1, 2, 3}
RVals(c) == IF c = 1 THEN {StrA, Str1} ELSE IF c = 2 THEN {Empty, StrA, Str1} ELSE {Empty, StrA}
RLines == {l \in [RFields -> {Empty, StrA, Str1}] : \A c \in RFields : l[c] \in RVals(c)}
\* Header lines: a different name for every column, or none for the last
ColumnName(c) == IF c = 1 THEN <<"p">> ELSE IF c = 2 THEN <<"q">> ELSE <<"r">>
RHeaderLines ==
    {[c \in RFields |-> ColumnName(c)],
     [c \in RFields |-> IF c = 3 THEN Empty ELSE ColumnName(c)]}

\* One pass of the loop of _get_file_as_cols: the first line fixes the number
\* of columns, and zip(data, fields) stops at the shorter of the two.
get_file_as_cols_add(cols, fields) ==
    LET d == IF cols = <<>> THEN [c \in 1..Len(fields) |-> <<>>] ELSE cols
    IN [c \in 1..Len(d) |-> IF c <= Len(fields) THEN Append(d[c], fields[c]) ELSE d[c]]

\* _get_single_value_cols: len(set(col)) == 1  (column i is data[i - 1])
get_single_value_cols(cols, drop_cols) ==
    drop_cols \cup {i \in DOMAIN cols : Cardinality(Range(cols[i])) = 1}

\* _get_dupe_cols: col1 == col2 for i < j drops j
get_dupe_cols(cols, drop_cols) ==
    drop_cols \cup {j \in DOMAIN cols : \E i \in DOMAIN cols : i < j /\ cols[i] = cols[j]}

\* The elements of s whose index is not in D, in order
RECURSIVE Without(_, _, _)
Without(s, D, i) ==
    IF i > Len(s) THEN <<>>
    ELSE (IF i \in D THEN <<>> ELSE <<s[i]>>) \o Without(s, D, i + 1)

RECURSIVE SortedDesc(_)
SortedDesc(S) ==
    IF S = {} THEN <<>>
    ELSE LET m == CHOOSE x \in S : \A y \in S : y <= x
         IN <<m>> \o SortedDesc(S \ {m})

\* _remove_cols: the columns are deleted from the highest number down; with
\* a header, header[i] of a column past the end of the header raises
\* IndexError (at the highest such column, the first that is reached).
remove_cols(cols, drop_cols, hd) ==
    IF hd /= <<>> /\ \E i \in drop_cols : i > Len(hd)
    THEN [exc |-> IndexError, data |-> cols, header |-> hd, msgs |-> <<>>]
    ELSE [exc |-> NoExc,
          data |-> Without(cols, drop_cols, 1),
          header |-> Without(hd, drop_cols, 1),
          msgs |-> SortedDesc(drop_cols)]

RemoveInit ==
    /\ rpc = "start"
    /\ noheader \in BOOLEAN
    /\ rfile = <<>>
    /\ rheader = <<>>
    /\ rdata = <<>>
    /\ rmsgs = <<>>
    /\ rout = <<>>
    /\ rexc = NoExc
    /\ MergeIdle
    /\ GprofilerIdle
    /\ ScriptIdle
    /\ PlateIdle

\* if not noheader: header = file.readline().rstrip().split("\t")
\* readline gives the empty string at the end of the file.
remove_header ==
    /\ rpc = "start"
    /\ \/ /\ noheader
          /\ rpc' = "read"
          /\ UNCHANGED <<rfile, rheader>>
       \/ /\ ~noheader
          /\ \E line \in RHeaderLines :
                /\ rfile' = <<line>>
                /\ rheader' = rstrip_split(line)
          /\ rpc' = "read"
       \/ /\ ~noheader
          /\ rheader' = <<Empty>>
          /\ rpc' = "cols"
          /\ UNCHANGED rfile
    /\ UNCHANGED <<noheader, rdata, rmsgs, rout, rexc>>
    /\ UNCHANGED <<mvars, gvars, svars, pvars>>

\* The data lines of the file read so far
RDataLines == IF noheader \/ rfile = <<>> THEN rfile ELSE Tail(rfile)

\* One pass of the loop of _get_file_as_cols
get_file_as_cols_line ==
    /\ rpc = "read"
    /\ Len(RDataLines) < MaxDataRows
    /\ \E line \in RLines :
        /\ rfile' = Append(rfile, line)
        /\ rdata' = get_file_as_cols_add(rdata, rstrip_split(line))
    /\ UNCHANGED <<rpc, noheader, rheader, rmsgs, rout, rexc>>
    /\ UNCHANGED <<mvars, gvars, svars, pvars>>

\* The file is exhausted: _get_file_as_cols returns
get_file_as_cols_return ==
    /\ rpc = "read"
    /\ rpc' = "cols"
    /\ UNCHANGED <<noheader, rfile, rheader, rdata, rmsgs, rout, rexc>>
    /\ UNCHANGED <<mvars, gvars, svars, pvars>>

\* remove, lines 53-60: find the superfluous columns and remove them
remove_superfluous ==
    /\ rpc = "cols"
    /\ LET drop_cols == get_dupe_cols(rdata, get_single_value_cols(rdata, {}))
           res == remove_cols(rdata, drop_cols, rheader)
       IN IF res.exc /= NoExc
          THEN /\ rpc' = "error"
               /\ rexc' = res.exc
               /\ UNCHANGED <<rheader, rdata, rmsgs>>
          ELSE /\ rpc' = "header"
               /\ rheader' = res.header
               /\ rdata' = res.data
               /\ rmsgs' = res.msgs
               /\ UNCHANGED rexc
    /\ UNCHANGED <<noheader, rfile, rout>>
    /\ UNCHANGED <<mvars, gvars, svars, pvars>>

\* if header: print("\t".join(header))
remove_print_header ==
    /\ rpc = "header"
    /\ rout' = IF rheader /= <<>> THEN Append(rout, rheader) ELSE rout
    /\ rpc' = "rows"
    /\ UNCHANGED <<noheader, rfile, rheader, rdata, rmsgs, rexc>>
    /\ UNCHANGED <<mvars, gvars, svars, pvars>>

\* Lines printed before the data rows, once the header has been dealt with
RHdrLines == IF rheader /= <<>> THEN 1 ELSE 0

\* for i in range(len(data[0])): print("\t".join([col[i] for col in data]))
\* data[0] of an empty list and col[i] past the end of a shorter column
\* raise IndexError.
remove_print_row ==
    /\ rpc = "rows"
    /\ LET i == Len(rout) - RHdrLines + 1
       IN IF rdata = <<>> \/ (i <= Len(rdata[1]) /\ \E c \in DOMAIN rdata : Len(rdata[c]) < i)
          THEN /\ rpc' = "error"
               /\ rexc' = IndexError
               /\ UNCHANGED rout
          ELSE /\ i <= Len(rdata[1])
               /\ rout' = Append(rout, [c \in DOMAIN rdata |-> rdata[c][i]])
               /\ UNCHANGED <<rpc, rexc>>
    /\ UNCHANGED <<noheader, rfile, rheader, rdata, rmsgs>>
    /\ UNCHANGED <<mvars, gvars, svars, pvars>>

\* The loop is over: the messages are logged and remove returns
remove_return ==
    /\ rpc = "rows"
    /\ rdata /= <<>>
    /\ Len(rout) - RHdrLines = Len(rdata[1])
    /\ rpc' = "done"
    /\ UNCHANGED <<noheader, rfile, rheader, rdata, rmsgs, rout, rexc>>
    /\ UNCHANGED <<mvars, gvars, svars, pvars>>

RemoveNext ==
    \/ remove_header
    \/ get_file_as_cols_line
    \/ get_file_as_cols_return
    \/ remove_superfluous
    \/ remove_print_header
    \/ remove_print_row
    \/ remove_return

RemoveSpec == RemoveInit /\ [][RemoveNext]_vars

(***************************************************************************)
(* Properties of removesuperfluouscols.remove                              *)
(***************************************************************************)
\* The data lines of the input as rows of fields, and its columns
RRow(r) == [c \in 1..3 |-> RDataLines[r][c]]
RColumn(c) == [r \in 1..Len(RDataLines) |-> RDataLines[r][c]]
\* A column is superfluous when its values are all the same or when it
\* repeats, row for row, a column to its left.
Superfluous ==
    {c \in RFields : \/ \A r, q \in 1..Len(RDataLines) : RDataLines[r][c] = RDataLines[q][c]
                     \/ \E b \in RFields : b < c /\ RColumn(b) = RColumn(c)}
RPrintedRows == SubSeq(rout, RHdrLines + 1, Len(rout))

\* C4: when remove has finished, the printed data rows are the rows of the
\* input, in order, without exactly the superfluous columns (those whose
\* values are all the same or repeat a column of smaller index); the other
\* columns are kept in their order.
C4_DropsExactlySuperfluous ==
    rpc = "done" =>
        RPrintedRows = [r \in 1..Len(RDataLines) |-> Without(RRow(r), Superfluous, 1)]

\* The header line of the input as a row of names
RHeaderRow == [c \in 1..3 |-> rfile[1][c]]
\* A row of fields without the empty fields at its end
RECURSIVE DropTrailingEmpty(_)
DropTrailingEmpty(row) ==
    IF row /= <<>> /\ row[Len(row)] = Empty
    THEN DropTrailingEmpty(SubSeq(row, 1, Len(row) - 1))
    ELSE row

\* C12: with noheader=False, when remove has finished, the first line is
\* no data row (the superfluous columns are those of the other lines, and
\* one row is printed for each of these), and the printed header is the
\* header of the input without the names of the superfluous columns, so that
\* each name is above the column it named.  Empty names at the end of the
\* header are not told from missing ones.
C12_HeaderFollowsColumns ==
    (rpc = "done" /\ ~noheader) =>
        /\ Len(RPrintedRows) = Len(RDataLines)
        /\ RHdrLines = 1
        /\ DropTrailingEmpty(rout[1])
                = DropTrailingEmpty(Without(RHeaderRow, Superfluous, 1))

\* _get_file_as_cols on the data lines of a whole file
RECURSIVE get_file_as_cols(_)
get_file_as_cols(datalines) ==
    IF datalines = <<>> THEN <<>>
    ELSE get_file_as_cols_add(get_file_as_cols(SubSeq(datalines, 1, Len(datalines) - 1)),
                              rstrip_split(datalines[Len(datalines)]))

\* The rows printed by the loop of remove from row i on: out is what was
\* printed when the loop ended or raised IndexError
RECURSIVE remove_rows_from(_, _)
remove_rows_from(cols, i) ==
    IF cols = <<>> THEN [exc |-> IndexError, out |-> <<>>]
    ELSE IF i > Len(cols[1]) THEN [exc |-> NoExc, out |-> <<>>]
    ELSE IF \E c \in DOMAIN cols : Len(cols[c]) < i THEN [exc |-> IndexError, out |-> <<>>]
    ELSE LET rest == remove_rows_from(cols, i + 1)
         IN [exc |-> rest.exc, out |-> <<[c \in DOMAIN cols |-> cols[c][i]]>> \o rest.out]

\* remove(file, noheader=nohdr) on a whole file, given as the list of its
\* lines, each the list of its tab-separated fields: the exception that ends
\* the call, if any, and the lines printed
remove_file(file, nohdr) ==
    LET hd == IF nohdr THEN <<>>
              ELSE IF file = <<>> THEN <<Empty>> ELSE rstrip_split(file[1])
        datalines == IF nohdr \/ file = <<>> THEN file ELSE Tail(file)
        cols == get_file_as_cols(datalines)
        res == remove_cols(cols, get_dupe_cols(cols, get_single_value_cols(cols, {})), hd)
        rows == remove_rows_from(res.data, 1)
    IN IF res.exc /= NoExc THEN [exc |-> res.exc, out |-> <<>>]
       ELSE [exc |-> rows.exc,
             out |-> (IF res.header /= <<>> THEN <<res.header>> ELSE <<>>) \o rows.out]

\* The columns of the printed table
RPrintedColumn(c) == [r \in DOMAIN RPrintedRows |-> RPrintedRows[r][c]]
RPrintedColumns == IF RPrintedRows = <<>> THEN {} ELSE DOMAIN RPrintedRows[1]

\* C15: when remove has finished, no column of the printed table holds one
\* value only and no two of its columns are the same, and remove, run on
\* the printed table with the same noheader, finishes and prints that table
\* again.
C15_RemoveAgainSame ==
    rpc = "done" =>
        /\ \A c \in RPrintedColumns : Cardinality(Range(RPrintedColumn(c))) > 1
        /\ \A b, c \in RPrintedColumns : b /= c => RPrintedColumn(b) /= RPrintedColumn(c)
        /\ remove_file(rout, noheader) = [exc |-> NoExc, out |-> rout]

\* C17: on a table with at least one data row (every row of the input has
\* the same number of fields), remove ends without an exception and has
\* then printed one line for each data row, also when every column is
\* superfluous.
C17_RemoveNeverRaises ==
    Len(RDataLines) >= 1 =>
        /\ rpc /= "error"
        /\ rexc = NoExc
        /\ rpc = "done" => Len(RPrintedRows) = Len(RDataLines)

(***************************************************************************)
(* merge_seqmonk_deseq2_with_gprofiler.py                                  *)
(***************************************************************************)
\* Column names and cell values
ColID == <<"I", "D">>
ColP == <<"P">>
ColTerm == <<"T", "e", "r", "m">>
ColIDs == <<"I", "D", "s">>
ColGene == <<"G", "e", "n", "e">>
ColGenes == <<"G", "e", "n", "e", "s">>
StrX == <<"x">>
StrY == <<"y">>
StrXY == <<"x", ",", "y">>
StrXX == <<"x", ",", "x">>
StrT == <<"t">>
StrU == <<"u">>
Str2 == <<"2">>

\* The header lines and the rows of the two files
Deseq2Headers == {<<ColID, ColP>>, <<ColID, ColTerm>>}
Deseq2Rows == {<<id, v>> : id \in {StrX, StrY}, v \in {Str1, Str2}}
GprofilerHeaders == {<<ColTerm, ColIDs>>, <<ColID, ColIDs>>}
GprofilerRows == {<<t, ids>> : t \in {StrT, StrU}, ids \in {StrX, StrXY, StrXX}}
GprofilerArgs ==
    [deseq2_key : {ColID, ColGene}, gprofiler_key : {ColIDs, ColGenes}]

\* A dict is the sequence of its (key, value) items in insertion order
DictHas(d, k) == \E i \in DOMAIN d : d[i][1] = k
DictGet(d, k) == d[CHOOSE i \in DOMAIN d : d[i][1] = k][2]
DictKeys(d) == [i \in DOMAIN d |-> d[i][1]]
\* d[k] = v on a dict that keeps the first value stored under a key
DictSetFirst(d, k, v) == IF DictHas(d, k) THEN d ELSE Append(d, <<k, v>>)
\* d[k] = v: a key already present keeps its place and takes the new value
DictSet(d, k, v) ==
    IF DictHas(d, k)
    THEN [i \in DOMAIN d |-> IF d[i][1] = k THEN <<k, v>> ELSE d[i]]
    ELSE Append(d, <<k, v>>)
\* d.pop(k) leaves the other items
DictPop(d, k) == SelectSeq(d, LAMBDA item : item[1] /= k)
\* {**d, **e}
RECURSIVE DictUpdate(_, _)
DictUpdate(d, e) ==
    IF e = <<>> THEN d ELSE DictUpdate(DictSet(d, e[1][1], e[1][2]), Tail(e))
\* The row csv.DictReader makes of a line under a header
DictRow(names, values) == [i \in DOMAIN names |-> <<names[i], values[i]>>]

\* keys.split(",")
RECURSIVE split_comma(_)
split_comma(s) ==
    IF \A i \in DOMAIN s : s[i] /= ","
    THEN <<s>>
    ELSE LET i == CHOOSE j \in DOMAIN s : s[j] = "," /\ \A k \in 1..(j - 1) : s[k] /= ","
         IN <<SubSeq(s, 1, i - 1)>> \o split_comma(SubSeq(s, i + 1, Len(s)))

\* The exits of the program and the exception of _print_merged_data
ColumnNotFound(column, file) ==
    [type |-> "SystemExit", field |-> 0, value |-> column, names |-> {"column", file}]
IDNotFound(id) ==
    [type |-> "SystemExit", field |-> 0, value |-> id, names |-> {"ID"}]

\* {**row, deseq2_key: key, **deseq2_data[key]}
merged_row(row, deseq2_key, key, table) ==
    DictUpdate(DictSet(row, deseq2_key, key), DictGet(table, key))

\* merged_data.extend(... for key in keys.split(",")): the rows are appended
\* one by one until a key is not in deseq2_data.
RECURSIVE merged_rows(_, _, _, _)
merged_rows(row, deseq2_key, ids, table) ==
    IF ids = <<>> \/ ~DictHas(table, ids[1]) THEN <<>>
    ELSE <<merged_row(row, deseq2_key, ids[1], table)>>
            \o merged_rows(row, deseq2_key, Tail(ids), table)

\* A lookup that finds no ID missing
MissingIDsNone(ids, table) == <<>>

\* The IDs of a list that are not keys of the table, in list order
MissingIDs(ids, table) == SelectSeq(ids, LAMBDA id : ~DictHas(table, id))

\* A table that keeps the first row read for an ID
deseq2_data_set_first(table, key, row) == DictSetFirst(table, key, row)

\* deseq2_data[key] = row
deseq2_data_set(table, key, row) == DictSet(table, key, row)

GprofilerInit ==
    /\ gpc = "start"
    /\ gargs \in GprofilerArgs
    /\ dfile = <<>>
    /\ gfile = <<>>
    /\ deseq2_data = <<>>
    /\ merged_data = <<>>
    /\ gout = <<>>
    /\ gexc = NoExc
    /\ MergeIdle
    /\ RemoveIdle
    /\ ScriptIdle
    /\ PlateIdle

\* _read_deseq2 opens the file; csv.DictReader takes the first line as header
read_deseq2_open ==
    /\ gpc = "start"
    /\ \E names \in Deseq2Headers : dfile' = <<names>>
    /\ gpc' = "deseq2"
    /\ UNCHANGED <<gargs, gfile, deseq2_data, merged_data, gout, gexc>>
    /\ UNCHANGED <<mvars, rvars, svars, pvars>>

\* One pass of the loop of _read_deseq2
read_deseq2_row ==
    /\ gpc = "deseq2"
    /\ Len(dfile) - 1 < MaxTableRows
    /\ \E values \in Deseq2Rows :
        LET row == DictRow(dfile[1], values)
        IN /\ dfile' = Append(dfile, values)
           /\ IF ~DictHas(row, gargs.deseq2_key)
              THEN /\ gpc' = "error"
                   /\ gexc' = ColumnNotFound(gargs.deseq2_key, "deseq2")
                   /\ UNCHANGED deseq2_data
              ELSE /\ deseq2_data' =
                        deseq2_data_set(deseq2_data, DictGet(row, gargs.deseq2_key),
                                        DictPop(row, gargs.deseq2_key))
                   /\ UNCHANGED <<gpc, gexc>>
    /\ UNCHANGED <<gargs, gfile, merged_data, gout>>
    /\ UNCHANGED <<mvars, rvars, svars, pvars>>

\* _read_deseq2 returns and _read_and_merge_gprofiler opens its file
read_deseq2_return ==
    /\ gpc = "deseq2"
    /\ \E names \in GprofilerHeaders : gfile' = <<names>>
    /\ gpc' = "gprofiler"
    /\ UNCHANGED <<gargs, dfile, deseq2_data, merged_data, gout, gexc>>
    /\ UNCHANGED <<mvars, rvars, svars, pvars>>

\* One pass of the loop of _read_and_merge_gprofiler
read_and_merge_gprofiler_row ==
    /\ gpc = "gprofiler"
    /\ Len(gfile) - 1 < MaxTableRows
    /\ \E values \in GprofilerRows :
        LET row == DictRow(gfile[1], values)
            ids == split_comma(DictGet(row, gargs.gprofiler_key))
            rest == DictPop(row, gargs.gprofiler_key)
        IN /\ gfile' = Append(gfile, values)
           /\ IF ~DictHas(row, gargs.gprofiler_key)
              THEN /\ gpc' = "error"
                   /\ gexc' = ColumnNotFound(gargs.gprofiler_key, "gprofiler")
                   /\ UNCHANGED merged_data
              ELSE /\ merged_data' =
                        merged_data \o merged_rows(rest, gargs.deseq2_key, ids, deseq2_data)
                   /\ IF MissingIDs(ids, deseq2_data) /= <<>>
                      THEN /\ gpc' = "error"
                           /\ gexc' = IDNotFound(MissingIDs(ids, deseq2_data)[1])
                      ELSE UNCHANGED <<gpc, gexc>>
    /\ UNCHANGED <<gargs, dfile, deseq2_data, gout>>
    /\ UNCHANGED <<mvars, rvars, svars, pvars>>

\* _read_and_merge_gprofiler returns
read_and_merge_gprofiler_return ==
    /\ gpc = "gprofiler"
    /\ gpc' = "print"
    /\ UNCHANGED <<gargs, dfile, gfile, deseq2_data, merged_data, gout, gexc>>
    /\ UNCHANGED <<mvars, rvars, svars, pvars>>

\* header = merged_data[0].keys(); writer.writeheader()
print_merged_data_header ==
    /\ gpc = "print"
    /\ IF merged_data = <<>>
       THEN /\ gpc' = "error"
            /\ gexc' = IndexError
            /\ UNCHANGED gout
       ELSE /\ gpc' = "rows"
            /\ gout' = <<DictKeys(merged_data[1])>>
            /\ UNCHANGED gexc
    /\ UNCHANGED <<gargs, dfile, gfile, deseq2_data, merged_data>>
    /\ UNCHANGED <<mvars, rvars, svars, pvars>>

\* writer.writerow(row): the values under the names of the header
print_merged_data_row ==
    /\ gpc = "rows"
    /\ Len(gout) - 1 < Len(merged_data)
    /\ LET row == merged_data[Len(gout)]
       IN gout' = Append(gout, [i \in DOMAIN gout[1] |-> DictGet(row, gout[1][i])])
    /\ UNCHANGED <<gpc, gargs, dfile, gfile, deseq2_data, merged_data, gexc>>
    /\ UNCHANGED <<mvars, rvars, svars, pvars>>

print_merged_data_return ==
    /\ gpc = "rows"
    /\ Len(gout) - 1 = Len(merged_data)
    /\ gpc' = "done"
    /\ UNCHANGED <<gargs, dfile, gfile, deseq2_data, merged_data, gout, gexc>>
    /\ UNCHANGED <<mvars, rvars, svars, pvars>>

GprofilerNext ==
    \/ read_deseq2_open
    \/ read_deseq2_row
    \/ read_deseq2_return
    \/ read_and_merge_gprofiler_row
    \/ read_and_merge_gprofiler_return
    \/ print_merged_data_header
    \/ print_merged_data_row
    \/ print_merged_data_return

GprofilerSpec == GprofilerInit /\ [][GprofilerNext]_vars

(***************************************************************************)
(* Properties of merge_seqmonk_deseq2_with_gprofiler.merge                 *)
(***************************************************************************)
\* The rows read from the two files, under their headers
Deseq2Row(j) == DictRow(dfile[1], dfile[j + 1])
GprofilerRow(r) == DictRow(gfile[1], gfile[r + 1])
NumDeseq2Rows == IF dfile = <<>> THEN 0 ELSE Len(dfile) - 1
NumGprofilerRows == IF gfile = <<>> THEN 0 ELSE Len(gfile) - 1
\* The IDs listed in the key column of a g:Profiler row
IDsOf(r) == split_comma(DictGet(GprofilerRow(r), gargs.gprofiler_key))
\* The (row, ID) pairs of the g:Profiler rows from row r on, in file and
\* list order
RECURSIVE IDPairs(_)
IDPairs(r) ==
    IF r > NumGprofilerRows THEN <<>>
    ELSE [i \in 1..Len(IDsOf(r)) |-> <<r, IDsOf(r)[i]>>] \o IDPairs(r + 1)
\* The keys of the DESeq2 table and the row stored for an ID (the last one
\* read with that ID)
Deseq2IDs ==
    IF dfile = <<>> \/ \A i \in DOMAIN dfile[1] : dfile[1][i] /= gargs.deseq2_key
    THEN {}
    ELSE {DictGet(Deseq2Row(j), gargs.deseq2_key) : j \in 1..NumDeseq2Rows}
StoredRow(id) ==
    LET S == {j \in 1..NumDeseq2Rows : DictGet(Deseq2Row(j), gargs.deseq2_key) = id}
    IN Deseq2Row(CHOOSE j \in S : \A k \in S : k <= j)
\* The columns of a g:Profiler row other than the key column, and those of
\* a DESeq2 row other than its key column
OtherGprofilerCols == {n \in Range(gfile[1]) : n /= gargs.gprofiler_key}
OtherDeseq2Cols == {n \in Range(dfile[1]) : n /= gargs.deseq2_key}
\* The value printed in output row k under column name n
HasOutCol(n) == \E i \in DOMAIN gout[1] : gout[1][i] = n
OutVal(k, n) == gout[k + 1][CHOOSE i \in DOMAIN gout[1] : gout[1][i] = n]

\* C5 as stated: when merge has finished, the output has one row per ID of
\* each g:Profiler row, in file and list order, and each row holds the
\* g:Profiler row's other columns, the ID under the DESeq2 key column name
\* and the columns of the DESeq2 row stored for the ID.
C5_JoinedRows ==
    gpc = "done" =>
        LET pairs == IDPairs(1)
        IN /\ Len(gout) - 1 = Len(pairs)
           /\ \A k \in DOMAIN pairs :
                /\ \A n \in OtherGprofilerCols :
                      HasOutCol(n) /\ OutVal(k, n) = DictGet(GprofilerRow(pairs[k][1]), n)
                /\ HasOutCol(gargs.deseq2_key)
                /\ OutVal(k, gargs.deseq2_key) = pairs[k][2]
                /\ \A n \in OtherDeseq2Cols :
                      HasOutCol(n) /\ OutVal(k, n) = DictGet(StoredRow(pairs[k][2]), n)

\* C5 as the code has it: the same, except that a g:Profiler column whose
\* name is that of the DESeq2 key column or of a DESeq2 column does not keep
\* its value; the output has no other column than those named.
C5_JoinedRowsOverwritten ==
    gpc = "done" =>
        LET pairs == IDPairs(1)
        IN /\ Len(gout) - 1 = Len(pairs)
           /\ Range(gout[1]) =
                OtherGprofilerCols \cup {gargs.deseq2_key} \cup OtherDeseq2Cols
           /\ \A k \in DOMAIN pairs :
                /\ \A n \in OtherGprofilerCols \ ({gargs.deseq2_key} \cup OtherDeseq2Cols) :
                      OutVal(k, n) = DictGet(GprofilerRow(pairs[k][1]), n)
                /\ OutVal(k, gargs.deseq2_key) = pairs[k][2]
                /\ \A n \in OtherDeseq2Cols :
                      OutVal(k, n) = DictGet(StoredRow(pairs[k][2]), n)

\* merge has finished on two g:Profiler rows of three IDs in all, one of
\* them stored twice in the DESeq2 table, with a column name that is in
\* both files
C5_Witness ==
    /\ gpc = "done"
    /\ Len(gout) = 4
    /\ NumDeseq2Rows = 2
    /\ Cardinality(Deseq2IDs) = 1
    /\ dfile[2] /= dfile[3]
    /\ ColTerm \in Range(gfile[1]) \cap Range(dfile[1])

\* C8: as soon as a g:Profiler row with an ID that is not a key of the
\* DESeq2 table has been read, the program has exited with the error that
\* names the first such ID of the row, and nothing has been printed; and
\* whenever a line has been printed, all g:Profiler rows have been merged.
C8_MissingIDExits ==
    LET table == Deseq2IDs
    IN /\ \A r \in 1..NumGprofilerRows :
            LET ids == IDsOf(r)
            IN (/\ gargs.gprofiler_key \in Range(gfile[1])
                /\ \E i \in DOMAIN ids : ids[i] \notin table)
               => /\ r = NumGprofilerRows
                  /\ gpc = "error"
                  /\ gout = <<>>
                  /\ LET i == CHOOSE j \in DOMAIN ids :
                                /\ ids[j] \notin table
                                /\ \A k \in 1..(j - 1) : ids[k] \in table
                     IN gexc = IDNotFound(ids[i])
       /\ gout /= <<>> =>
            /\ gpc \in {"rows", "done"}
            /\ Len(merged_data) = Len(IDPairs(1))

\* The second ID of a g:Profiler row is missing after rows have been merged
C8_Witness ==
    /\ gpc = "error"
    /\ gexc = IDNotFound(StrY)
    /\ merged_data /= <<>>
    /\ NumGprofilerRows = 2
    /\ gfile[3][2] = StrXY

(***************************************************************************)
(* mergeduplicates.py run as a script: the validation of the arguments     *)
(***************************************************************************)
\* The field numbers an option is given, in the order of the command line
RECURSIVE ArgListsOf(_)
ArgListsOf(n) ==
    IF n = 0 THEN {<<>>}
    ELSE ArgListsOf(n - 1) \cup {Append(l, f) : l \in {m \in ArgListsOf(n - 1) : Len(m) = n - 1}, f \in Fields}
ArgLists == ArgListsOf(MaxArgs)
\* --key is required; the other options default to []
ScriptArgs ==
    [keys : ArgLists \ {<<>>}, sums : ArgLists, means : ArgLists,
     mins : ArgLists, maxs : ArgLists]

\* VALID_ACTIONS in the order of the loop, as the attribute names name + "s"
ValidActionAttrs == <<"sums", "means", "mins", "maxs">>

\* A loop that goes no further than its first pass
RECURSIVE validate_keys_once(_, _)
validate_keys_once(args, i) ==
    IF i > 1 THEN <<>>
    ELSE IF Len(args.keys) + Len(args[ValidActionAttrs[i]])
                /= Cardinality(Range(args.keys \o args[ValidActionAttrs[i]]))
         THEN <<"key", ValidActionAttrs[i]>>
         ELSE validate_keys_once(args, i + 1)

\* for name in VALID_ACTIONS: the first name whose fields, put with the keys,
\* hold a number twice gives the parser error
RECURSIVE validate_keys(_, _)
validate_keys(args, i) ==
    IF i > Len(ValidActionAttrs) THEN <<>>
    ELSE IF Len(args.keys) + Len(args[ValidActionAttrs[i]])
                /= Cardinality(Range(args.keys \o args[ValidActionAttrs[i]]))
         THEN <<"key", ValidActionAttrs[i]>>
         ELSE validate_keys(args, i + 1)

\* The second check: the fields of all operations together hold a number twice
validate_operations(args) ==
    IF Len(args.sums) + Len(args.means) + Len(args.mins) + Len(args.maxs)
            /= Cardinality(Range(args.sums \o args.means \o args.mins \o args.maxs))
    THEN <<"operation">>
    ELSE <<>>

ScriptInit ==
    /\ spc = "parsed"
    /\ sargs \in ScriptArgs
    /\ serr = Empty
    /\ MergeIdle
    /\ RemoveIdle
    /\ GprofilerIdle
    /\ PlateIdle

\* Lines 245-255: parser.error prints the message and exits
script_validate ==
    /\ spc = "parsed"
    /\ LET err == IF validate_keys(sargs, 1) /= <<>>
                  THEN validate_keys(sargs, 1)
                  ELSE validate_operations(sargs)
       IN /\ serr' = err
          /\ spc' = IF err /= <<>> THEN "error" ELSE "valid"
    /\ UNCHANGED sargs
    /\ UNCHANGED <<mvars, rvars, gvars, pvars>>

\* main(args), which opens and reads the file
script_main ==
    /\ spc = "valid"
    /\ spc' = "main"
    /\ UNCHANGED <<sargs, serr>>
    /\ UNCHANGED <<mvars, rvars, gvars, pvars>>

ScriptNext ==
    \/ script_validate
    \/ script_main

ScriptSpec == ScriptInit /\ [][ScriptNext]_vars

(***************************************************************************)
(* Properties of the validation of the arguments                           *)
(***************************************************************************)
Operations == {"sums", "means", "mins", "maxs"}
\* A field number given both as a key and to an operation
KeyConflict ==
    \E f \in Range(sargs.keys) : \E a \in Operations : f \in Range(sargs[a])
\* A field number given to two of the operations
OperationConflict ==
    \E a, b \in Operations : a /= b /\ Range(sargs[a]) \cap Range(sargs[b]) /= {}

\* C6: with a field number given both as a key and to an operation, or to
\* more than one operation, the validation ends in a parser error and main
\* is never called, so that no input is read.
C6_ConflictRejected ==
    (spc /= "args" /\ (KeyConflict \/ OperationConflict)) =>
        /\ spc \in {"parsed", "error"}
        /\ spc = "error" => serr /= Empty

\* A parser error for a field given to both min and max, the keys being
\* clear of the operations
C6_Witness ==
    /\ spc = "error"
    /\ ~KeyConflict
    /\ Range(sargs.mins) \cap Range(sargs.maxs) /= {}
    /\ serr = <<"operation">>

\* C16: the validation ends in a parser error only when a field number is
\* given both as a key and to an operation, or to two different operations;
\* every other set of arguments is accepted.
C16_OnlyConflictsRejected ==
    spc = "error" => (KeyConflict \/ OperationConflict)

(***************************************************************************)
(* plotkaspcsv.py: make_plate_from_file                                    *)
(***************************************************************************)
\* The lines of a KlusterCaller file, without their newline: the lines of
\* the head of the file and the lines of the wells
LineID1T == <<"I", "D", "1", ":", " ", "t", ",", "x">>
LineID1U == <<"I", "D", "1", ":", " ", "u", " ">>
LineID1Bare == <<"I", "D", "1">>
LineUser == <<"U", ",", "x">>
LineContent == <<"C", "o", "n", "t", "e", "n", "t", ",", "W">>
PlateHeadLines == {LineID1T, LineID1U, LineID1Bare, LineUser, LineContent}
Fluorophores == <<",", "4", ",", "6", ",", "2">>
LineSA2 == <<"S", ",", "2", ",", "A">> \o Fluorophores
LineTA2 == <<"T", ",", "2", ",", "A">> \o Fluorophores
LineSA10 == <<"S", ",", "1", "0", ",", "A">> \o Fluorophores
LineSB2 == <<"S", ",", "2", ",", "B">> \o Fluorophores
LineShort == <<"S", ",", "2">>
LineNoNumber == <<"S", ",", "x", ",", "A">> \o Fluorophores
PlateWellLines == {LineSA2, LineTA2, LineSA10, LineSB2, LineShort, LineNoNumber}

\* line.startswith(prefix)
startswith(line, prefix) ==
    Len(line) >= Len(prefix) /\ SubSeq(line, 1, Len(prefix)) = prefix
\* line.rstrip(): the line without the white space at its end
RECURSIVE rstrip(_)
rstrip(line) ==
    IF line /= <<>> /\ line[Len(line)] = " "
    THEN rstrip(SubSeq(line, 1, Len(line) - 1))
    ELSE line
\* s.split(": ")
RECURSIVE split_colon(_)
split_colon(s) ==
    IF \A i \in 1..(Len(s) - 1) : ~(s[i] = ":" /\ s[i + 1] = " ")
    THEN <<s>>
    ELSE LET i == CHOOSE j \in 1..(Len(s) - 1) :
                    /\ s[j] = ":" /\ s[j + 1] = " "
                    /\ \A k \in 1..(j - 1) : ~(s[k] = ":" /\ s[k + 1] = " ")
         IN <<SubSeq(s, 1, i - 1)>> \o split_colon(SubSeq(s, i + 2, Len(s)))

\* The order of str on the characters of a rowcol (digits before letters)
PlateChars == DigitChars \o <<"A", "B">>
CharRank(c) == CHOOSE k \in DOMAIN PlateChars : PlateChars[k] = c
RECURSIVE StrLess(_, _)
StrLess(a, b) ==
    IF b = <<>> THEN FALSE
    ELSE IF a = <<>> THEN TRUE
    ELSE IF a[1] = b[1] THEN StrLess(Tail(a), Tail(b))
    ELSE CharRank(a[1]) < CharRank(b[1])

\* A rowcol that holds the number of the column as it is
rowcol_unpadded(row, col) == row \o NatStr(col)

\* fields[2] + f"{int(fields[1]):02d}"
rowcol_of(row, col) == row \o PadLeft(NatStr(col), 2)

\* (int(fields[3]), int(fields[4]), int(fields[5])), from field k on: the
\* first field that is missing or no number ends it
RECURSIVE fluorophores_exc(_, _)
fluorophores_exc(fields, k) ==
    IF k > 6 THEN NoExc
    ELSE IF Len(fields) < k THEN IndexError
    ELSE IF ~AllDigits(fields[k]) THEN ValueError
    ELSE fluorophores_exc(fields, k + 1)

\* The body of the second loop: the Well of a line, or the exception of
\* fields[k] (IndexError) or int() (ValueError)
well_of_line(line) ==
    LET fields == split_comma(rstrip(line))
    IN IF Len(fields) < 3 THEN [exc |-> IndexError, well |-> <<>>]
       ELSE IF ~AllDigits(fields[2]) THEN [exc |-> ValueError, well |-> <<>>]
       ELSE IF fluorophores_exc(fields, 4) /= NoExc
       THEN [exc |-> fluorophores_exc(fields, 4), well |-> <<>>]
       ELSE [exc |-> NoExc,
             well |-> [rowcol |-> rowcol_of(fields[3], DigitsVal(fields[2])),
                       sample |-> fields[1],
                       fam |-> DigitsVal(fields[4]),
                       hex |-> DigitsVal(fields[5]),
                       rox |-> DigitsVal(fields[6])]]

\* sorted(wells, key=lambda w: w.rowcol): wells of equal rowcol keep their order
RECURSIVE sorted_wells(_)
sorted_wells(ws) ==
    IF ws = <<>> THEN <<>>
    ELSE LET front == sorted_wells(SubSeq(ws, 1, Len(ws) - 1))
             w == ws[Len(ws)]
             k == Cardinality({i \in DOMAIN front : ~StrLess(w.rowcol, front[i].rowcol)})
         IN SubSeq(front, 1, k) \o <<w>> \o SubSeq(front, k + 1, Len(front))

PlateInit ==
    /\ PlateIdle
    /\ MergeIdle
    /\ RemoveIdle
    /\ GprofilerIdle
    /\ ScriptIdle

\* One pass of the first loop: a line "Content," ends the loop, a line
\* "ID1" sets name
make_plate_head_line ==
    /\ ppc = "header"
    /\ Len(pfile) < MaxPlateLines
    /\ \E line \in PlateHeadLines :
        /\ pfile' = Append(pfile, line)
        /\ IF startswith(line, <<"C", "o", "n", "t", "e", "n", "t", ",">>)
           THEN /\ ppc' = "wells"
                /\ UNCHANGED <<pname, pexc>>
           ELSE IF startswith(line, <<"I", "D", "1">>)
           THEN IF Len(split_colon(rstrip(line))) < 2
                THEN /\ ppc' = "error"
                     /\ pexc' = IndexError
                     /\ UNCHANGED pname
                ELSE /\ pname' = split_comma(split_colon(rstrip(line))[2])[1]
                     /\ UNCHANGED <<ppc, pexc>>
           ELSE UNCHANGED <<ppc, pname, pexc>>
    /\ UNCHANGED <<pwells, plate>>
    /\ UNCHANGED <<mvars, rvars, gvars, svars>>

\* The file ends in the first loop: the second loop has nothing to read
make_plate_head_end ==
    /\ ppc = "header"
    /\ ppc' = "return"
    /\ UNCHANGED <<pfile, pname, pwells, plate, pexc>>
    /\ UNCHANGED <<mvars, rvars, gvars, svars>>

\* One pass of the second loop
make_plate_well_line ==
    /\ ppc = "wells"
    /\ Len(pwells) < MaxPlateLines
    /\ \E line \in PlateWellLines :
        LET res == well_of_line(line)
        IN /\ pfile' = Append(pfile, line)
           /\ IF res.exc /= NoExc
              THEN /\ ppc' = "error"
                   /\ pexc' = res.exc
                   /\ UNCHANGED pwells
              ELSE /\ pwells' = Append(pwells, res.well)
                   /\ UNCHANGED <<ppc, pexc>>
    /\ UNCHANGED <<pname, plate>>
    /\ UNCHANGED <<mvars, rvars, gvars, svars>>

\* The file ends in the second loop
make_plate_wells_end ==
    /\ ppc = "wells"
    /\ ppc' = "return"
    /\ UNCHANGED <<pfile, pname, pwells, plate, pexc>>
    /\ UNCHANGED <<mvars, rvars, gvars, svars>>

\* return Plate(name, wells); Plate.__init__ sorts the wells
make_plate_return ==
    /\ ppc = "return"
    /\ plate' = <<[name |-> pname, wells |-> sorted_wells(pwells)]>>
    /\ ppc' = "done"
    /\ UNCHANGED <<pfile, pname, pwells, pexc>>
    /\ UNCHANGED <<mvars, rvars, gvars, svars>>

PlateNext ==
    \/ make_plate_head_line
    \/ make_plate_head_end
    \/ make_plate_well_line
    \/ make_plate_wells_end
    \/ make_plate_return

PlateSpec == PlateInit /\ [][PlateNext]_vars

(***************************************************************************)
(* Properties of plotkaspcsv.make_plate_from_file                          *)
(***************************************************************************)
\* The place in the file of the first line "Content," (0: there is none),
\* the lines before it and the lines after it
ContentAt ==
    IF \E i \in DOMAIN pfile : pfile[i] = LineContent
    THEN CHOOSE i \in DOMAIN pfile :
            pfile[i] = LineContent /\ \A k \in 1..(i - 1) : pfile[k] /= LineContent
    ELSE 0
LinesBefore == IF ContentAt = 0 THEN pfile ELSE SubSeq(pfile, 1, ContentAt - 1)
LinesAfter == IF ContentAt = 0 THEN <<>> ELSE SubSeq(pfile, ContentAt + 1, Len(pfile))
\* The well each line of a well stands for
WellA02(sample) ==
    [rowcol |-> <<"A", "0", "2">>, sample |-> sample, fam |-> 4, hex |-> 6, rox |-> 2]
WellFor(line) ==
    IF line = LineSA2 THEN WellA02(<<"S">>)
    ELSE IF line = LineTA2 THEN WellA02(<<"T">>)
    ELSE IF line = LineSA10
    THEN [rowcol |-> <<"A", "1", "0">>, sample |-> <<"S">>, fam |-> 4, hex |-> 6, rox |-> 2]
    ELSE [rowcol |-> <<"B", "0", "2">>, sample |-> <<"S">>, fam |-> 4, hex |-> 6, rox |-> 2]
\* Row A before row B, and in a row column 2 before column 10
PlaceOf(rowcol) ==
    IF rowcol = <<"A", "0", "2">> THEN 1
    ELSE IF rowcol = <<"A", "1", "0">> THEN 2
    ELSE IF rowcol = <<"B", "0", "2">> THEN 3
    ELSE 0
\* The name the last line "ID1" before the line "Content," gives
ID1Lines == SelectSeq(LinesBefore, LAMBDA l : l \in {LineID1T, LineID1U})
NameGiven ==
    IF ID1Lines = <<>> THEN Empty
    ELSE IF ID1Lines[Len(ID1Lines)] = LineID1T THEN <<"t">>
    ELSE <<"u">>

\* C13: the plate returned has one well per line after the first line
\* "Content," (none without such a line), each with the row and two-digit
\* column, the sample and the three readings of its line; the wells are in
\* the order of row, then column; the name is that of the last line "ID1"
\* before the line "Content,".
C13_PlateOfFile ==
    ppc = "done" =>
        LET p == plate[1]
        IN /\ Len(p.wells) = Len(LinesAfter)
           /\ \A l \in PlateWellLines :
                Cardinality({i \in DOMAIN LinesAfter : LinesAfter[i] = l})
                    = Cardinality({i \in DOMAIN p.wells :
                                    l \notin {LineShort, LineNoNumber} /\ p.wells[i] = WellFor(l)})
           /\ \A i, j \in DOMAIN p.wells :
                /\ PlaceOf(p.wells[i].rowcol) > 0
                /\ i < j => PlaceOf(p.wells[i].rowcol) <= PlaceOf(p.wells[j].rowcol)
           /\ p.name = NameGiven

\* A plate of three wells that are not in the order of their lines, named by
\* the second of two lines "ID1"
C13_Witness ==
    /\ ppc = "done"
    /\ Len(plate[1].wells) = 3
    /\ plate[1].wells /= pwells
    /\ \E i \in DOMAIN plate[1].wells : plate[1].wells[i].rowcol = <<"A", "1", "0">>
    /\ Len(ID1Lines) = 2
    /\ ID1Lines[1] /= ID1Lines[2]

====
